---- MODULE Spec2Model ----
(***************************************************************************)
(* Photon-ALP conversion (conversion.py): the galactic-magnetic-field      *)
(* engine PhotALPs_GMF (transfer-matrix chain Pag_TM, line-of-sight        *)
(* integral Pag / integrate_los), its base class PhotALPs_ICM              *)
(* (SetDomainN) and the intergalactic engine PhotALPs (readz, SetDomainN). *)
(*                                                                         *)
(* Arithmetic is exact.  A number is a complex rational                    *)
(* [re, im, den] in lowest terms (den > 0).  Phases are counted in quarter *)
(* turns: the Delta terms are given in units of (pi/2) per kpc and the     *)
(* inputs are chosen so that every exponent exp(i*x) the code evaluates    *)
(* has x a whole number of quarter turns, where exp(i*x) = i^x exactly.    *)
(***************************************************************************)
EXTENDS Integers, Sequences, FiniteSets, TLC

VARIABLES
    eng,     \* the PhotALPs_GMF object: its attributes (self.*)
    frame,   \* per caller: the local variables of the running Pag_TM / Pag call
    calls,   \* number of calls started so far on the engine
    igm      \* the PhotALPs (intergalactic) object: its attributes

vars == <<eng, frame, calls, igm>>

(***************************************************************************)
(* Exact complex rationals.                                                *)
(***************************************************************************)
Abs(n) == IF n < 0 THEN -n ELSE n

RECURSIVE GCD(_, _)
GCD(a, b) == IF b = 0 THEN Abs(a) ELSE GCD(b, a % Abs(b))

Q(re, im, den) ==
    LET sg == IF den < 0 THEN -1 ELSE 1
        g  == GCD(GCD(re, im), den)
    IN  [re |-> (sg * re) \div g, im |-> (sg * im) \div g, den |-> (sg * den) \div g]

QInt(n)  == [re |-> n, im |-> 0, den |-> 1]
QZero    == QInt(0)
QOne     == QInt(1)
QAdd(a, b) == Q(a.re * b.den + b.re * a.den, a.im * b.den + b.im * a.den, a.den * b.den)
QNeg(a)    == [re |-> -a.re, im |-> -a.im, den |-> a.den]
QSub(a, b) == QAdd(a, QNeg(b))
QMul(a, b) == Q(a.re * b.re - a.im * b.im, a.re * b.im + a.im * b.re, a.den * b.den)
QConj(a)   == [re |-> a.re, im |-> -a.im, den |-> a.den]
\* a / b for a real non-zero b
QDivR(a, b) == Q(a.re * b.den, a.im * b.den, a.den * b.re)
QReal(a)   == Q(a.re, 0, a.den)
QImag(a)   == Q(a.im, 0, a.den)
QIsZero(a) == a.re = 0 /\ a.im = 0
\* a > b for real a, b
QGt(a, b)  == a.re * b.den > b.re * a.den
QAbsR(a)   == [re |-> Abs(a.re), im |-> 0, den |-> a.den]

\* the integer square root of a perfect square
RECURSIVE ISqrtBetween(_, _, _)
ISqrtBetween(n, lo, hi) ==
    IF lo >= hi THEN lo
    ELSE LET mid == (lo + hi + 1) \div 2
         IN  IF mid * mid <= n THEN ISqrtBetween(n, mid, hi) ELSE ISqrtBetween(n, lo, mid - 1)
\* the root of a perfect square (undefined for any other number)
ISqrt(n) == CHOOSE r \in {ISqrtBetween(n, 0, IF n < 46340 THEN n ELSE 46340)} : r * r = n

\* np.sqrt of a real rational that is a perfect square
QSqrt(a) == Q(ISqrt(a.re), 0, ISqrt(a.den))

\* np.exp(1j * x) for x a whole number of quarter turns: i^x
ExpI(x) ==
    LET k == x.re % 4
    IN  IF k = 0 THEN [re |-> 1, im |-> 0, den |-> 1]
        ELSE IF k = 1 THEN [re |-> 0, im |-> 1, den |-> 1]
        ELSE IF k = 2 THEN [re |-> -1, im |-> 0, den |-> 1]
        ELSE [re |-> 0, im |-> -1, den |-> 1]

\* the value of body(x) for x the value of the singleton's element
\* (the element is computed once, before body is applied to it)
Let(S, body(_)) == CHOOSE r \in {body(x) : x \in S} : TRUE

(***************************************************************************)
(* 3x3 complex matrices, rows and columns numbered 0..2 as in numpy.       *)
(***************************************************************************)
Ix == 0..2

\* a row (or a column of rows) with explicit entries for the indices 0, 1, 2
Row(a, b, c) == (0 :> a) @@ (1 :> b) @@ (2 :> c)
\* the matrix with entry f(i, j) at [i, j]
Mat(f(_, _)) ==
    Row(Row(f(0, 0), f(0, 1), f(0, 2)),
        Row(f(1, 0), f(1, 1), f(1, 2)),
        Row(f(2, 0), f(2, 1), f(2, 2)))

\* np.zeros((3,3), np.complex)
MZeros == Mat(LAMBDA i, j : QZero)
\* np.diag(np.diag(np.ones((3,3), np.complex))): the identity
MIdentity == Mat(LAMBDA i, j : IF i = j THEN QOne ELSE QZero)
\* A[i, j] = v
MSet(A, i, j, v) == [A EXCEPT ![i][j] = v]
MAdd(A, B) == Mat(LAMBDA i, j : QAdd(A[i][j], B[i][j]))
MScale(z, A) == Mat(LAMBDA i, j : QMul(z, A[i][j]))
\* np.dot(A, B)
MDot(A, B) ==
    Mat(LAMBDA i, j :
        QAdd(QAdd(QMul(A[i][0], B[0][j]), QMul(A[i][1], B[1][j])), QMul(A[i][2], B[2][j])))
\* A.transpose().conjugate()
MDagger(A) == Mat(LAMBDA i, j : QConj(A[j][i]))
\* np.sum(np.diag(A))
MTrace(A) == QAdd(QAdd(A[0][0], A[1][1]), A[2][2])


(***************************************************************************)
(* numpy helpers used by the propagation routines.                         *)
(***************************************************************************)
\* int(x) for a real rational x: truncation towards zero
IntTrunc(x) == IF x.re >= 0 THEN x.re \div x.den ELSE -((-x.re) \div x.den)

\* math.floor of a non-negative real rational
Floor(x) == x.re \div x.den

\* np.linspace(start, stop, num, endpoint): num samples, empty when num <= 0
linspace(start, stop, num, endpoint) ==
    IF num <= 0 THEN << >>
    ELSE LET div  == IF endpoint THEN num - 1 ELSE num
             step == IF div = 0 THEN QZero ELSE QDivR(QSub(stop, start), QInt(div))
         IN  [k \in 1..num |-> QAdd(start, QMul(QInt(k - 1), step))]

(***************************************************************************)
(* External collaborators, as fixed lookup tables.                         *)
(*   deltas.py       Delta_pl_kpc, Delta_QED_kpc, Delta_ag_kpc, Delta_a_kpc*)
(*   kapteyn.wcs     the (ra, dec) -> (l, b) transformation                *)
(*   gmf             the field along the line of sight                     *)
(* Delta terms are in quarter turns per kpc.                               *)
(***************************************************************************)
Energies   == {-1, 1, 2, 3}          \* photon energies offered to the calls (one is negative)
RAs        == {1, 2, 3, 4}           \* sky positions offered to the calls
Decs       == {0}

\* plasma term: depends on electron density n and energy only
Delta_pl_kpc(n, E) ==
    CASE E = 1  -> QInt(-6 * n)
      [] E = 2  -> QInt(-8 * n)
      [] E = 3  -> QInt(-3 * n)
      [] OTHER  -> QInt(7 * n)
\* QED (dispersive) term: grows with B^2 and with energy
Delta_QED_kpc(B, E) == IF E = 2 THEN QMul(QInt(2), QMul(B, B)) ELSE QZero
\* photon-ALP coupling term: proportional to coupling times field
Delta_ag_kpc(g, B) == QMul(Q(3 * g, 0, 2), B)
\* ALP mass term
Delta_a_kpc(m, E) ==
    CASE E = 1  -> QInt(-2 * m * m)
      [] E = 2  -> QInt(-5 * m * m)
      [] E = 3  -> QInt(-7 * m * m)
      [] OTHER  -> QInt(3 * m * m)

\* wcs.Transformation("EQ,fk5,J2000.0", "GAL").transform((ra, dec))
tran_transform(ra, dec) == <<ra + 10, dec>>

\* distance to the edge of the field region for a direction (l, b)
GmfEdge(l, b) ==
    CASE l = 11 -> QInt(6)
      [] l = 12 -> QInt(5)
      [] l = 13 -> QInt(6)
      [] OTHER  -> QInt(1)

\* the transverse field components (Bt, Bu) at distance s in direction (l, b):
\* Bgmf_calc followed by GC2HCproj; piecewise constant over unit cells
FieldT(l, b, s) ==
    LET k == Floor(s)
    IN  CASE l = 11 -> <<1, 0, 0, 1, -1, 0, 1>>[k + 1]
          [] l = 12 -> <<0, 0, 0, 0, 0, 0, 0>>[k + 1]
          [] OTHER  -> 0
FieldU(l, b, s) ==
    LET k == Floor(s)
    IN  CASE l = 11 -> <<0, 0, 1, 0, 0, 0, 0>>[k + 1]
          [] l = 12 -> <<1, 0, -1, 1, 0, 0, 0>>[k + 1]
          [] OTHER  -> 0


(***************************************************************************)
(* Angles.  An angle is kept by the trigonometric values the code takes of *)
(* it.  Psin = arccos(Bt/B), reflected to 2*pi - Psin when Bu < 0, has     *)
(* cos = Bt/B and sin = Bu/B.  alph = 0.5*arctan(y/x) has, with            *)
(* r = sqrt(x^2 + y^2) and theta = arctan(y/x) in (-pi/2, pi/2),           *)
(* cos(theta) = |x|/r and sin(theta) = sgn(x)*y/r, hence                   *)
(* cos^2 = (r+|x|)/(2r), sin^2 = (r-|x|)/(2r), sin*cos = sgn(x)*y/(2r).    *)
(* For x = 0 and y # 0 numpy's division gives +-inf and theta = +-pi/2.    *)
(* (x = 0 and y = 0 gives nan; the lookup tables above never produce it.)  *)
(***************************************************************************)
Sgn(a) == IF a.re > 0 THEN 1 ELSE IF a.re < 0 THEN -1 ELSE 0

AngleZero == [cos |-> QOne, sin |-> QZero]

\* np.arccos(Bt / B), then 2*pi - Psin if Bu < 0
ArccosReflected(Bt, Bu, B) == [cos |-> QDivR(Bt, B), sin |-> QDivR(Bu, B)]

\* a half angle of an eighth of a turn whatever the arguments
HalfArctan_eighth(y, x) == [cc |-> Q(1, 0, 2), ss |-> Q(1, 0, 2), sc |-> Q(1, 0, 2)]

\* 0.5 * np.arctan(y / x)
HalfArctan(y, x) ==
    LET r   == QSqrt(QAdd(QMul(x, x), QMul(y, y)))
        two == QMul(QInt(2), r)
        sg  == IF Sgn(x) = 0 THEN 1 ELSE Sgn(x)
    IN  [cc |-> QDivR(QAdd(r, QAbsR(x)), two),
         ss |-> QDivR(QSub(r, QAbsR(x)), two),
         sc |-> QDivR(QMul(QInt(sg), y), two)]

(***************************************************************************)
(* PhotALPs_ICM: the per-domain transfer matrix without absorption.        *)
(* Each operator takes the object o and returns it after the method ran.   *)
(***************************************************************************)
setDeltas(o) ==
    LET Dperp == QAdd(Delta_pl_kpc(o.n, o.E), QMul(QInt(2), Delta_QED_kpc(o.B, o.E)))
        Dpar  == QAdd(Delta_pl_kpc(o.n, o.E), QMul(Q(7, 0, 2), Delta_QED_kpc(o.B, o.E)))
        Dag   == Delta_ag_kpc(o.g, o.B)
        Da    == Delta_a_kpc(o.m, o.E)
    IN  [o EXCEPT !.Dperp = Dperp, !.Dpar = Dpar, !.Dag = Dag, !.Da = Da,
                  !.alph  = HalfArctan(QMul(QInt(2), Dag), QSub(Dpar, Da)),
                  !.Dosc  = QSqrt(QAdd(QMul(QSub(Dpar, Da), QSub(Dpar, Da)),
                                       QMul(QInt(4), QMul(Dag, Dag))))]

setEW(o) ==
    LET d == setDeltas(o)
    IN  [d EXCEPT !.EW1 = d.Dperp,
                  !.EW2 = QMul(Q(1, 0, 2), QSub(QAdd(d.Dpar, d.Da), d.Dosc)),
                  !.EW3 = QMul(Q(1, 0, 2), QAdd(QAdd(d.Dpar, d.Da), d.Dosc))]

setT1n(o) ==
    LET c  == o.Psin.cos
        s  == o.Psin.sin
        a  == MSet(o.T1, 0, 0, QMul(c, c))
        b  == MSet(a, 0, 1, QMul(QInt(-1), QMul(c, s)))
        cm == MSet(b, 1, 0, b[0][1])
        d  == MSet(cm, 1, 1, QMul(s, s))
    IN  [o EXCEPT !.T1 = d]

setT2n(o) ==
    LET c    == o.Psin.cos
        s    == o.Psin.sin
        sasa == o.alph.ss
        saca == o.alph.sc
        caca == o.alph.cc
        t1 == MSet(o.T2, 0, 0, QMul(QMul(s, s), sasa))
        t2 == MSet(t1, 0, 1, QMul(QMul(s, c), sasa))
        t3 == MSet(t2, 0, 2, QMul(QInt(-1), QMul(s, saca)))
        t4 == MSet(t3, 1, 0, t3[0][1])
        t5 == MSet(t4, 1, 1, QMul(QMul(c, c), sasa))
        t6 == MSet(t5, 1, 2, QMul(QInt(-1), QMul(c, saca)))
        t7 == MSet(t6, 2, 0, t6[0][2])
        t8 == MSet(t7, 2, 1, t7[1][2])
        t9 == MSet(t8, 2, 2, caca)
    IN  [o EXCEPT !.T2 = t9]

setT3n(o) ==
    LET c    == o.Psin.cos
        s    == o.Psin.sin
        sasa == o.alph.ss
        saca == o.alph.sc
        caca == o.alph.cc
        t1 == MSet(o.T3, 0, 0, QMul(QMul(s, s), caca))
        t2 == MSet(t1, 0, 1, QMul(QMul(s, c), caca))
        t3 == MSet(t2, 0, 2, QMul(s, saca))
        t4 == MSet(t3, 1, 0, t3[0][1])
        t5 == MSet(t4, 1, 1, QMul(QMul(c, c), caca))
        t6 == MSet(t5, 1, 2, QMul(c, saca))
        t7 == MSet(t6, 2, 0, t6[0][2])
        t8 == MSet(t7, 2, 1, t7[1][2])
        t9 == MSet(t8, 2, 2, sasa)
    IN  [o EXCEPT !.T3 = t9]

\* Un without its third term
setUn_two_terms(o) ==
    [o EXCEPT !.Un =
        MAdd(MScale(ExpI(QMul(o.EW1, o.Lcoh)), o.T1),
             MScale(ExpI(QMul(o.EW2, o.Lcoh)), o.T2))]

setUn(o) ==
    [o EXCEPT !.Un =
        MAdd(MAdd(MScale(ExpI(QMul(o.EW1, o.Lcoh)), o.T1),
                  MScale(ExpI(QMul(o.EW2, o.Lcoh)), o.T2)),
             MScale(ExpI(QMul(o.EW3, o.Lcoh)), o.T3))]

\* PhotALPs_ICM.SetDomainN: returns the object; the method's return value is its Un
SetDomainN(o) == setUn(setT3n(setT2n(setT1n(setEW(o)))))

(***************************************************************************)
(* PhotALPs_GMF                                                            *)
(***************************************************************************)
\* __init__ (PhotALPs_ICM.__init__ through super, then the GMF attributes)
GMF_init(pol_t, pol_u, g, Lcoh) ==
    [Nd |-> QDivR(QInt(1050), Lcoh), Lcoh |-> Lcoh, E |-> 0, B |-> QOne,
     g |-> g, m |-> 1, n |-> 1, xi |-> g, Psin |-> AngleZero,
     T1 |-> MZeros, T2 |-> MZeros, T3 |-> MZeros, Un |-> MZeros,
     l |-> 0, b |-> 0, smax |-> QZero, pol_t |-> pol_t, pol_u |-> pol_u,
     rho_max |-> 20, zmax |-> 50, galactic |-> QInt(-1), d |-> Q(-17, 0, 2),
     \* attributes created by the first SetDomainN; never read before they are set
     Dperp |-> QZero, Dpar |-> QZero, Dag |-> QZero, Da |-> QZero,
     alph |-> [cc |-> QOne, ss |-> QZero, sc |-> QZero], Dosc |-> QZero,
     EW1 |-> QZero, EW2 |-> QZero, EW3 |-> QZero]

set_coordinates(o, ra, dec) ==
    LET lb == tran_transform(ra, dec)
    IN  [o EXCEPT !.l = lb[1], !.b = lb[2],
                  !.smax = IF QGt(QZero, o.galactic) THEN GmfEdge(lb[1], lb[2])
                           ELSE o.galactic]

\* one pass of the body of the Pag_TM loop up to and including SetDomainN
TMDomain(o, s) ==
    LET Bt == QInt(FieldT(o.l, o.b, s))
        Bu == QInt(FieldU(o.l, o.b, s))
        B  == QSqrt(QAdd(QMul(Bt, Bt), QMul(Bu, Bu)))
        p  == [o EXCEPT !.B = B,
                        !.Psin = IF ~QIsZero(B) THEN ArccosReflected(Bt, Bu, B)
                                 ELSE AngleZero]
    IN  SetDomainN(p)


(***************************************************************************)
(* scipy.integrate.simps(y, x) for real samples y at positions x           *)
(* (sequences, numbered from 1 here and from 0 in numpy).                  *)
(***************************************************************************)
\* one summand of _basic_simps: samples k, k+1, k+2 (0-based k)
SimpsTriple(y, x, k) ==
    LET h0      == QSub(x[k + 2], x[k + 1])
        h1      == QSub(x[k + 3], x[k + 2])
        hsum    == QAdd(h0, h1)
        hprod   == QMul(h0, h1)
        h0divh1 == QDivR(h0, h1)
    IN  QMul(QDivR(hsum, QInt(6)),
             QAdd(QAdd(QMul(y[k + 1], QSub(QInt(2), QDivR(QOne, h0divh1))),
                       QMul(y[k + 2], QDivR(QMul(hsum, hsum), hprod))),
                  QMul(y[k + 3], QSub(QInt(2), h0divh1))))

\* _basic_simps(y, start, stop, x): the triples starting at start, start+2, ... < stop
RECURSIVE basic_simps(_, _, _, _)
basic_simps(y, x, start, stop) ==
    IF start >= stop \/ start + 3 > Len(y) THEN QZero
    ELSE QAdd(SimpsTriple(y, x, start), basic_simps(y, x, start + 2, stop))

simps(y, x) ==
    LET N == Len(y)
    IN  IF N % 2 = 0
        THEN LET last_dx  == QSub(x[N], x[N - 1])
                 first_dx == QSub(x[2], x[1])
                 val == QAdd(QMul(Q(1, 0, 2), QMul(last_dx, QAdd(y[N], y[N - 1]))),
                             QMul(Q(1, 0, 2), QMul(first_dx, QAdd(y[2], y[1]))))
                 res == QAdd(basic_simps(y, x, 0, N - 3), basic_simps(y, x, 1, N - 2))
             IN  QAdd(QDivR(res, QInt(2)), QDivR(val, QInt(2)))
        ELSE basic_simps(y, x, 0, N - 2)

\* a[m] for a boolean mask m
RECURSIVE Masked(_, _)
Masked(a, m) ==
    IF Len(a) = 0 THEN << >>
    ELSE IF Head(m) THEN <<Head(a)>> \o Masked(Tail(a), Tail(m))
         ELSE Masked(Tail(a), Tail(m))

(***************************************************************************)
(* integrate_los: the perturbative line-of-sight integral                  *)
(***************************************************************************)
\* pertubation = 0.10, the limit for perturbation theory to be valid (per kpc)
pertubation == Q(1, 0, 10)

\* Delta > pertubation.  A Delta of the model counts quarter turns per kpc,
\* that is pi/2 times as much per kpc; 157/100 < pi/2 is used for the product.
ExceedsPertubation(Delta) == QGt(QMul(Delta, Q(157, 0, 100)), pertubation)

\* z * conj(z) > 1e-20.  Every non-zero rational of the model is larger than
\* 1e-20, its denominator being below 2^31.
AboveMask(z) == QMul(z, QConj(z)).re > 0

\* the loop body for the sample at s: the two kernel values and whether each
\* validity test fires
LosSample(o, s) ==
    LET Bt == QInt(FieldT(o.l, o.b, s))
        Bu == QInt(FieldU(o.l, o.b, s))
        Btrans_abs == QSqrt(QAdd(QMul(Bt, Bt), QMul(Bu, Bu)))
        Delta_ag_t == Delta_ag_kpc(o.g, Bt)
        Delta_ag_u == Delta_ag_kpc(o.g, Bu)
        Delta_a    == Delta_a_kpc(o.m, o.E)
        Delta_perp == QAdd(Delta_pl_kpc(o.n, o.E), QMul(QInt(2), Delta_QED_kpc(Btrans_abs, o.E)))
        Delta_par  == QAdd(Delta_pl_kpc(o.n, o.E), QMul(Q(7, 0, 2), Delta_QED_kpc(Btrans_abs, o.E)))
    IN  [large_t  |-> ExceedsPertubation(Delta_ag_t),
         large_u  |-> ExceedsPertubation(Delta_ag_u),
         kernel_t |-> QMul(Delta_ag_t, ExpI(QMul(s, QSub(Delta_a, Delta_perp)))),
         kernel_u |-> QMul(Delta_ag_u, ExpI(QMul(s, QSub(Delta_a, Delta_par))))]

\* the integral of one kernel over the samples above the mask threshold
LosIntegral(kernel, sa) ==
    LET m  == [k \in 1..Len(kernel) |-> AboveMask(kernel[k])]
        km == Masked(kernel, m)
        xm == Masked(sa, m)
        re == [k \in 1..Len(km) |-> QReal(km[k])]
        im == [k \in 1..Len(km) |-> QImag(km[k])]
    IN  IF Len(km) > 0
        THEN QAdd(simps(re, xm), QMul(Q(0, 1, 1), simps(im, xm)))
        ELSE QZero

\* what integrate_los returns for the accumulated kernels
LosResult(kernel_t, kernel_u, sa) ==
    LET I_t == LosIntegral(kernel_t, sa)
        I_u == LosIntegral(kernel_u, sa)
    IN  <<QReal(QMul(I_t, QConj(I_t))), QReal(QMul(I_u, QConj(I_u))),
          QReal(QMul(QConj(I_u), I_t))>>

\* what Pag returns: self.pol_t**2 * It + self.pol_u**2 * Iu
PagValue(o, los) ==
    QAdd(QMul(QInt(o.pol_t * o.pol_t), los[1]), QMul(QInt(o.pol_u * o.pol_u), los[2]))

(***************************************************************************)
(* Pag_TM: what is read off the cumulative matrix U                        *)
(***************************************************************************)
Diag3(a, b, c) ==
    Mat(LAMBDA i, j : IF i # j THEN QZero ELSE IF i = 0 THEN a ELSE IF i = 1 THEN b ELSE c)
pol_t_proj == Diag3(QOne, QZero, QZero)
pol_u_proj == Diag3(QZero, QOne, QZero)
pol_a_proj == Diag3(QZero, QZero, QOne)

\* Tr(P U pol U^dagger)
Channel(P, U, pol) == MTrace(MDot(P, MDot(U, MDot(pol, MDagger(U)))))

TMResult(U, pol, has_final, pol_final) ==
    IF ~has_final
    THEN <<Channel(pol_t_proj, U, pol), Channel(pol_u_proj, U, pol), Channel(pol_a_proj, U, pol)>>
    ELSE <<Channel(pol_final, U, pol)>>


(***************************************************************************)
(* Inputs offered to the calls.                                            *)
(***************************************************************************)
MaxCalls == 2      \* calls started on one engine object

\* initial polarization matrices: t-polarized, unpolarized, and a general
\* (non-Hermitian) matrix with an ALP component
PolT     == pol_t_proj
PolUnpol == Diag3(Q(1, 0, 2), Q(1, 0, 2), QZero)
PolMixed == Mat(LAMBDA i, j :
                IF i = j THEN QInt(i + 1)
                ELSE IF i = 0 /\ j = 1 THEN Q(0, 1, 2)
                ELSE IF i = 2 /\ j = 0 THEN QOne ELSE QZero)
Pols     == {PolT, PolUnpol, PolMixed}
PolWeights == {-1, 2}          \* pol_t, pol_u arguments of Pag; -1 is the default
Couplings  == {0, 1}           \* g given to the constructor
Callers    == {1, 2}

IdleFrame ==
    [pc |-> "idle", op |-> "none", E |-> 0, ra |-> 0, dec |-> 0,
     pol |-> MZeros, has_final |-> FALSE, pol_final |-> MZeros,
     pol_t |-> -1, pol_u |-> -1,
     sa |-> << >>, i |-> 0, U |-> MIdentity,
     hist |-> << >>, dags |-> << >>,
     kernel_t |-> << >>, kernel_u |-> << >>, warn_t |-> << >>, warn_u |-> << >>,
     raised |-> FALSE, returned |-> FALSE, ret |-> << >>]

\* warnings.warn(..., RuntimeWarning): the message goes to the side channel
\* (the list of sample indices warned about) and execution continues
warnings_warn(log, i) == Append(log, i)

(***************************************************************************)
(* Pag_TM(E, ra, dec, pol, pol_final), run by caller c in steps:           *)
(* entry up to the loop, one loop pass per step, and the return.           *)
(***************************************************************************)
Pag_TM_enter(o, E, ra, dec) == [set_coordinates(o, ra, dec) EXCEPT !.E = E]

Pag_TM_sa(o) == linspace(o.smax, QZero, IntTrunc(QDivR(o.smax, o.Lcoh)), FALSE)

\* U = np.dot(U, SetDomainN())
Pag_TM_accumulate(U, Un) == MDot(U, Un)

Pag_TM_begin(c, E, ra, dec, pol, has_final, pol_final) ==
    /\ frame[c].pc = "idle"
    /\ calls < MaxCalls
    /\ calls' = calls + 1
    /\ eng' = Pag_TM_enter(eng, E, ra, dec)
    /\ frame' = [frame EXCEPT ![c] =
                    [IdleFrame EXCEPT !.pc = "tm", !.op = "Pag_TM", !.E = E, !.ra = ra,
                                      !.dec = dec, !.pol = pol, !.has_final = has_final,
                                      !.pol_final = pol_final, !.sa = Pag_TM_sa(eng')]]
    /\ UNCHANGED igm

Pag_TM_domain(c) ==
    /\ frame[c].pc = "tm"
    /\ frame[c].i < Len(frame[c].sa)
    /\ eng' = TMDomain(eng, frame[c].sa[frame[c].i + 1])
    /\ frame' = [frame EXCEPT ![c].i = @ + 1,
                              ![c].U = Pag_TM_accumulate(@, eng'.Un),
                              ![c].hist = Append(@, eng'.Un),
                              ![c].dags = Append(@, eng'.Dag)]
    /\ UNCHANGED <<calls, igm>>

Pag_TM_return(c) ==
    /\ frame[c].pc = "tm"
    /\ frame[c].i = Len(frame[c].sa)
    /\ frame' = [frame EXCEPT ![c].pc = "idle", ![c].returned = TRUE,
                              ![c].ret = TMResult(frame[c].U, frame[c].pol,
                                                  frame[c].has_final, frame[c].pol_final)]
    /\ UNCHANGED <<eng, calls, igm>>

(***************************************************************************)
(* Pag(E, ra, dec, pol_t, pol_u), run by caller c in steps: entry up to    *)
(* the loop of integrate_los, one sample per step, and the return.         *)
(***************************************************************************)
Pag_enter(o, E, ra, dec, pol_t, pol_u) ==
    [set_coordinates(o, ra, dec) EXCEPT
        !.E = E,
        !.pol_t = IF pol_t > 0 THEN pol_t ELSE @,
        !.pol_u = IF pol_u > 0 THEN pol_u ELSE @]

integrate_los_sa(o) == linspace(QZero, o.smax, IntTrunc(QDivR(o.smax, o.Lcoh)), TRUE)

Pag_begin(c, E, ra, dec, pol_t, pol_u) ==
    /\ frame[c].pc = "idle"
    /\ calls < MaxCalls
    /\ calls' = calls + 1
    /\ eng' = Pag_enter(eng, E, ra, dec, pol_t, pol_u)
    /\ frame' = [frame EXCEPT ![c] =
                    [IdleFrame EXCEPT !.pc = "los", !.op = "Pag", !.E = E, !.ra = ra,
                                      !.dec = dec, !.pol_t = pol_t, !.pol_u = pol_u,
                                      !.sa = integrate_los_sa(eng')]]
    /\ UNCHANGED igm

\* a loop pass that clamps the kernels of a sample beyond the bound to zero
integrate_los_step_clamped(f, o) ==
    LET x  == LosSample(o, f.sa[f.i + 1])
        wt == IF x.large_t THEN warnings_warn(f.warn_t, f.i) ELSE f.warn_t
        wu == IF x.large_u THEN warnings_warn(f.warn_u, f.i) ELSE f.warn_u
    IN  [f EXCEPT !.i = @ + 1, !.warn_t = wt, !.warn_u = wu,
                  !.kernel_t = Append(@, IF x.large_t THEN QZero ELSE x.kernel_t),
                  !.kernel_u = Append(@, IF x.large_u THEN QZero ELSE x.kernel_u)]

\* the frame after the loop pass for sample number i (0-based)
integrate_los_step(f, o) ==
    LET x  == LosSample(o, f.sa[f.i + 1])
        wt == IF x.large_t THEN warnings_warn(f.warn_t, f.i) ELSE f.warn_t
        wu == IF x.large_u THEN warnings_warn(f.warn_u, f.i) ELSE f.warn_u
    IN  [f EXCEPT !.i = @ + 1, !.warn_t = wt, !.warn_u = wu,
                  !.kernel_t = Append(@, x.kernel_t),
                  !.kernel_u = Append(@, x.kernel_u)]

Pag_sample(c) ==
    /\ frame[c].pc = "los"
    /\ frame[c].i < Len(frame[c].sa)
    /\ frame' = [frame EXCEPT ![c] = integrate_los_step(frame[c], eng)]
    /\ UNCHANGED <<eng, calls, igm>>

Pag_return(c) ==
    /\ frame[c].pc = "los"
    /\ frame[c].i = Len(frame[c].sa)
    /\ frame' = [frame EXCEPT ![c].pc = "idle", ![c].returned = TRUE,
                    ![c].ret = <<PagValue(eng, LosResult(frame[c].kernel_t,
                                                         frame[c].kernel_u, frame[c].sa))>>]
    /\ UNCHANGED <<eng, calls, igm>>

(***************************************************************************)
(* The engine used by one caller at a time (calls follow one another).     *)
(***************************************************************************)
IGM_idle == [unused |-> TRUE]

Init ==
    /\ \E g \in Couplings : eng = GMF_init(1, 1, g, QInt(2))
    /\ frame = [c \in Callers |-> IdleFrame]
    /\ calls = 0
    /\ igm = IGM_idle

Next ==
    \/ \E E \in Energies, ra \in RAs, dec \in Decs, pol \in Pols :
          Pag_TM_begin(1, E, ra, dec, pol, FALSE, MZeros)
    \/ \E E \in Energies, ra \in RAs, dec \in Decs, pol \in Pols :
          Pag_TM_begin(1, E, ra, dec, pol, TRUE, pol_a_proj)
    \/ Pag_TM_domain(1)
    \/ Pag_TM_return(1)
    \/ \E E \in Energies, ra \in RAs, dec \in Decs, pt \in PolWeights, pu \in PolWeights :
          Pag_begin(1, E, ra, dec, pt, pu)
    \/ Pag_sample(1)
    \/ Pag_return(1)

Spec == Init /\ [][Next]_vars


(***************************************************************************)
(* Two callers using one engine object at once, interleaved between the    *)
(* loop passes of Pag_TM.                                                  *)
(***************************************************************************)
ParEnergies == {1, 3}
ParRAs      == {1, 2}

NextPar ==
    \E c \in Callers :
        \/ \E E \in ParEnergies, ra \in ParRAs, dec \in Decs :
              Pag_TM_begin(c, E, ra, dec, PolT, FALSE, MZeros)
        \/ Pag_TM_domain(c)
        \/ Pag_TM_return(c)

SpecPar == Init /\ [][NextPar]_vars

(***************************************************************************)
(* Reference values: a call run alone, start to end, on a given object.    *)
(***************************************************************************)
\* the engine as constructed
FreshEngine == GMF_init(1, 1, eng.g, eng.Lcoh)

RECURSIVE TMLoop(_, _, _, _)
TMLoop(o, U, sa, i) ==
    IF i = Len(sa) THEN U
    ELSE Let({TMDomain(o, sa[i + 1])}, LAMBDA o2 :
            Let({Pag_TM_accumulate(U, o2.Un)}, LAMBDA U2 : TMLoop(o2, U2, sa, i + 1)))

Pag_TM_alone(o, E, ra, dec, pol, has_final, pol_final) ==
    Let({Pag_TM_enter(o, E, ra, dec)}, LAMBDA o1 :
        Let({TMLoop(o1, MIdentity, Pag_TM_sa(o1), 0)}, LAMBDA U :
            TMResult(U, pol, has_final, pol_final)))

RECURSIVE LosLoop(_, _)
LosLoop(f, o) ==
    IF f.i = Len(f.sa) THEN f
    ELSE Let({integrate_los_step(f, o)}, LAMBDA f2 : LosLoop(f2, o))

Pag_alone(o, E, ra, dec, pol_t, pol_u) ==
    Let({Pag_enter(o, E, ra, dec, pol_t, pol_u)}, LAMBDA o1 :
        Let({LosLoop([IdleFrame EXCEPT !.sa = integrate_los_sa(o1)], o1)}, LAMBDA f :
            <<PagValue(o1, LosResult(f.kernel_t, f.kernel_u, f.sa))>>))

AloneReturn(f) ==
    IF f.op = "Pag_TM"
    THEN Pag_TM_alone(FreshEngine, f.E, f.ra, f.dec, f.pol, f.has_final, f.pol_final)
    ELSE Pag_alone(FreshEngine, f.E, f.ra, f.dec, f.pol_t, f.pol_u)

\* U_N . ... . U_2 . U_1 for the domain matrices <<U_1, ..., U_N>>
RECURSIVE LeftProduct(_)
LeftProduct(h) ==
    IF Len(h) = 0 THEN MIdentity
    ELSE Let({LeftProduct(SubSeq(h, 1, Len(h) - 1))}, LAMBDA P : MDot(h[Len(h)], P))

\* U_1 . U_2 . ... . U_N
RECURSIVE RightProduct(_)
RightProduct(h) ==
    IF Len(h) = 0 THEN MIdentity
    ELSE Let({RightProduct(SubSeq(h, 1, Len(h) - 1))}, LAMBDA P : MDot(P, h[Len(h)]))

\* ceil(x) for a non-negative real rational
Ceil(x) == (x.re + x.den - 1) \div x.den

TMCalls  == {c \in Callers : frame[c].op = "Pag_TM"}
PagCalls == {c \in Callers : frame[c].op = "Pag"}
TMDone   == {c \in TMCalls : frame[c].returned /\ ~frame[c].has_final}
PagDone  == {c \in PagCalls : frame[c].returned}


(***************************************************************************)
(* PhotALPs: conversion in the intergalactic field, with absorption.       *)
(*                                                                         *)
(* Its numbers span forty decades (the fallback mean free path is          *)
(* Ln/1e-20), so a real is kept as n/d * 10^e in lowest terms and a        *)
(* complex number as a pair of reals.  Products and quotients are exact.   *)
(* A sum of two reals of the same decade e is exact; in a sum of reals of  *)
(* different decades (they differ by 20 or more) the smaller term is lost, *)
(* as it is in 64-bit floating point.                                      *)
(***************************************************************************)
SR(n, d, e) ==
    IF n = 0 THEN [n |-> 0, d |-> 1, e |-> 0]
    ELSE LET sg == IF d < 0 THEN -1 ELSE 1
             g  == GCD(n, d)
         IN  [n |-> (sg * n) \div g, d |-> (sg * d) \div g, e |-> e]
SRInt(k)     == SR(k, 1, 0)
SRNeg(a)     == [a EXCEPT !.n = -a.n]
SRIsZero(a)  == a.n = 0
SRMul(a, b)  ==
    IF a.n = 0 \/ b.n = 0 THEN SRInt(0)
    ELSE LET g1 == GCD(a.n, b.d)
             g2 == GCD(b.n, a.d)
         IN  SR((a.n \div g1) * (b.n \div g2), (a.d \div g2) * (b.d \div g1), a.e + b.e)
\* a / b for b # 0
SRDiv(a, b)  == SRMul(a, SR(b.d, b.n, -b.e))
SRAdd(a, b)  ==
    IF a.n = 0 THEN b
    ELSE IF b.n = 0 THEN a
    ELSE IF a.e = b.e
         THEN LET g == GCD(a.d, b.d)
              IN  SR(a.n * (b.d \div g) + b.n * (a.d \div g), (a.d \div g) * b.d, a.e)
    ELSE IF a.e > b.e THEN a ELSE b
SRSub(a, b)  == SRAdd(a, SRNeg(b))
\* the square root of a non-negative real whose parts are perfect squares
SRSqrt(a)    == SR(ISqrt(a.n), ISqrt(a.d), a.e \div 2)

SC(re, im)   == [re |-> re, im |-> im]
SCReal(a)    == SC(a, SRInt(0))
\* what numpy yields for a complex division by zero: a value with inf or nan
\* parts (a RuntimeWarning, no exception), which every later product and sum
\* keeps not finite
NotFinite    == SC([n |-> 0, d |-> 0, e |-> 0], [n |-> 0, d |-> 0, e |-> 0])
SCAdd(z, w)  ==
    IF z = NotFinite \/ w = NotFinite THEN NotFinite
    ELSE SC(SRAdd(z.re, w.re), SRAdd(z.im, w.im))
SCMul(z, w)  ==
    IF z = NotFinite \/ w = NotFinite THEN NotFinite
    ELSE SC(SRSub(SRMul(z.re, w.re), SRMul(z.im, w.im)),
            SRAdd(SRMul(z.re, w.im), SRMul(z.im, w.re)))
\* z / w for w real or purely imaginary
SCDiv(z, w)  ==
    IF z = NotFinite \/ w = NotFinite THEN NotFinite
    ELSE IF SRIsZero(w.re) /\ SRIsZero(w.im) THEN NotFinite
    ELSE IF SRIsZero(w.im) THEN SC(SRDiv(z.re, w.re), SRDiv(z.im, w.re))
    ELSE SC(SRDiv(z.im, w.im), SRNeg(SRDiv(z.re, w.im)))
\* a root taken in real arithmetic, of the modulus of the argument
SCSqrt_real(z) == SC(SRSqrt(SR(Abs(z.re.n), z.re.d, z.re.e)), SRInt(0))

\* np.sqrt(x + 0j) for real x: the principal branch
SCSqrt(z)    ==
    IF z.re.n >= 0 THEN SC(SRSqrt(z.re), SRInt(0))
    ELSE SC(SRInt(0), SRSqrt(SRNeg(z.re)))
SCZero       == SCReal(SRInt(0))

SMZeros      == Mat(LAMBDA i, j : SCZero)

\* math.ceil of a real of decade 0
SRCeil(a)    == -((-a.n) \div a.d)

\* the external optical depth tau.opt_depth(z, E) at the redshifts k*dz the
\* code asks for.  Energy 1 is below the pair-production threshold (no
\* absorption); for the other energies the depth grows, or (energy 4) falls,
\* from one redshift step to the next by kappa(k)/r, where kappa(k) is
\* 0.11 * Ln * (1 + (k-1)*dz)^2 of the k-th domain, so that the code's dn is
\* xi * r with r one of 3/10, 2/5, 1/2 (energy 5), 5/8, 5/6.
IGM_dz == SR(1, 10, 0)
IGM_Ln(n) ==
    SRDiv(SRMul(SR(4290, 1, 0), IGM_dz),
          SRAdd(SRInt(1), SRMul(SR(145, 100, 0), SRMul(SRInt(n - 1), IGM_dz))))
IGM_scale(n) == SRAdd(SRInt(1), SRMul(SRInt(n - 1), IGM_dz))
IGM_kappa(n) == SRMul(SRMul(SR(11, 100, 0), IGM_Ln(n)), SRMul(IGM_scale(n), IGM_scale(n)))
TauStep(k, E) ==
    IF E = 1 THEN SRInt(0)
    ELSE IF E = 2 THEN SRDiv(IGM_kappa(k), IF k % 2 = 1 THEN SR(3, 10, 0) ELSE SR(5, 8, 0))
    ELSE IF E = 3 THEN SRDiv(IGM_kappa(k), IF k % 2 = 1 THEN SR(5, 6, 0) ELSE SR(2, 5, 0))
    ELSE IF E = 5 THEN SRDiv(IGM_kappa(k), SR(1, 2, 0))
    ELSE SRNeg(SRDiv(IGM_kappa(k), SR(3, 10, 0)))
RECURSIVE opt_depth_at(_, _)
opt_depth_at(k, E) ==
    IF k <= 0 THEN SRInt(0) ELSE SRAdd(opt_depth_at(k - 1, E), TauStep(k, E))

\* __init__(Ldom1, xi)
IGM_init(Ldom1, xi) ==
    [Ld |-> Ldom1, xi |-> xi,
     dz |-> SRDiv(SRMul(SR(117, 100000, 0), Ldom1), SRInt(5)),
     E0 |-> 0, Nd |-> 0, z |-> SRInt(0),
     mfn_print |-> SRInt(0), dtau |-> SRInt(0), Psin |-> [cos |-> SRInt(1), sin |-> SRInt(0)],
     dn |-> SRInt(0), EW1n |-> SCZero, EW2n |-> SCZero, EW3n |-> SCZero, Dn |-> SCZero,
     T1 |-> SMZeros, T2 |-> SMZeros, T3 |-> SMZeros,
     \* Un is kept as the three terms exp(arg) * T of its sum
     Un |-> << >>,
     \* Ln is created by the first SetDomainN
     Ln |-> SRInt(0),
     \* what the last SetDomainN call was given (n, and Psin on the object),
     \* whether it raised, and what it returned
     last_n |-> 0, last_Psin |-> [cos |-> SRInt(1), sin |-> SRInt(0)],
     raised |-> FALSE, ret |-> << >>]

\* readz(z)
IGM_readz(o, z) ==
    [o EXCEPT !.z = z,
              !.Nd = SRCeil(SRMul(SRDiv(SRMul(SR(850, 1, 0), SRInt(5)), o.Ld), z))]

\* SetT1n without the assignment of T1[1,1]
IGM_SetT1n_partial(o) ==
    LET s  == SCReal(o.Psin.sin)
        c  == SCReal(o.Psin.cos)
        t1 == MSet(o.T1, 0, 0, SCMul(c, c))
        t2 == MSet(t1, 0, 1, SCMul(SCMul(SCReal(SRInt(-1)), s), c))
        t3 == MSet(t2, 1, 0, t2[0][1])
    IN  [o EXCEPT !.T1 = t3]

IGM_SetT1n(o) ==
    LET s  == SCReal(o.Psin.sin)
        c  == SCReal(o.Psin.cos)
        t1 == MSet(o.T1, 0, 0, SCMul(c, c))
        t2 == MSet(t1, 0, 1, SCMul(SCMul(SCReal(SRInt(-1)), s), c))
        t3 == MSet(t2, 1, 0, t2[0][1])
        t4 == MSet(t3, 1, 1, SCMul(s, s))
    IN  [o EXCEPT !.T1 = t4]

SCHalf == SCReal(SR(1, 2, 0))
SCOne  == SCReal(SRInt(1))
SCI(k) == SC(SRInt(0), SRInt(k))

IGM_SetT2n(o) ==
    LET s  == SCReal(o.Psin.sin)
        c  == SCReal(o.Psin.cos)
        dn == SCReal(o.dn)
        a  == SCDiv(SCMul(SCHalf, SCAdd(SCOne, o.Dn)), o.Dn)
        b  == SCDiv(SCMul(SCI(-1), dn), o.Dn)
        t1 == MSet(o.T2, 0, 0, SCMul(SCMul(a, s), s))
        t2 == MSet(t1, 0, 1, SCMul(SCMul(a, s), c))
        t3 == MSet(t2, 0, 2, SCMul(b, s))
        t4 == MSet(t3, 1, 0, t3[0][1])
        t5 == MSet(t4, 2, 0, t4[0][2])
        t6 == MSet(t5, 1, 1, SCMul(SCMul(a, c), c))
        t7 == MSet(t6, 1, 2, SCMul(b, c))
        t8 == MSet(t7, 2, 1, t7[1][2])
        t9 == MSet(t8, 2, 2, SCDiv(SCMul(SCHalf, SCAdd(SCReal(SRInt(-1)), o.Dn)), o.Dn))
    IN  [o EXCEPT !.T2 = t9]

IGM_SetT3n(o) ==
    LET s  == SCReal(o.Psin.sin)
        c  == SCReal(o.Psin.cos)
        dn == SCReal(o.dn)
        a  == SCDiv(SCMul(SCHalf, SCAdd(SCReal(SRInt(-1)), o.Dn)), o.Dn)
        b  == SCDiv(SCMul(SCI(1), dn), o.Dn)
        t1 == MSet(o.T3, 0, 0, SCMul(SCMul(a, s), s))
        t2 == MSet(t1, 0, 1, SCMul(SCMul(a, s), c))
        t3 == MSet(t2, 0, 2, SCMul(b, s))
        t4 == MSet(t3, 1, 0, t3[0][1])
        t5 == MSet(t4, 2, 0, t4[0][2])
        t6 == MSet(t5, 1, 1, SCMul(SCMul(a, c), c))
        t7 == MSet(t6, 1, 2, SCMul(b, c))
        t8 == MSet(t7, 2, 1, t7[1][2])
        t9 == MSet(t8, 2, 2, SCDiv(SCMul(SCHalf, SCAdd(SCOne, o.Dn)), o.Dn))
    IN  [o EXCEPT !.T3 = t9]

\* Un = exp(EW1n*Ln)*T1 + exp(EW2n*Ln)*T2 + exp(EW3n*Ln)*T3, kept by its terms
IGM_SetUn(o) ==
    [o EXCEPT !.Un = <<[arg |-> SCMul(o.EW1n, SCReal(o.Ln)), T |-> o.T1],
                       [arg |-> SCMul(o.EW2n, SCReal(o.Ln)), T |-> o.T2],
                       [arg |-> SCMul(o.EW3n, SCReal(o.Ln)), T |-> o.T3]>>]

\* 1e-20, the divisor of the fallback
Tiny == SR(1, 1, -20)

\* a / b of two floats: a zero divisor raises, which is told apart from every
\* number by its zero denominator
ZeroDivisionError == [n |-> 1, d |-> 0, e |-> 0]
FloatDiv(a, b) == IF SRIsZero(b) THEN ZeroDivisionError ELSE SRDiv(a, b)

\* the mean free path without the test for a zero difference
IGM_mfn_unguarded(Ln, difftau) == FloatDiv(Ln, difftau)

\* the mean free path of the domain: Ln / difftau, or Ln / 1e-20 when difftau is zero
IGM_mfn(Ln, difftau) == IF ~SRIsZero(difftau) THEN FloatDiv(Ln, difftau) ELSE FloatDiv(Ln, Tiny)

\* Dn = sqrt(1 - 4 dn^2 + 0j).  For dn of ten decades or more the 1 is lost in
\* the difference and the root of -4 dn^2 is 2|dn| i; for dn of minus ten
\* decades or less 4 dn^2 is lost and the root is 1.
IGM_Dn(dn) ==
    IF dn.e >= 10 THEN SC(SRInt(0), SRMul(SRInt(2), SR(Abs(dn.n), dn.d, dn.e)))
    ELSE IF dn.e <= -10 THEN SCOne
    ELSE SCSqrt(SCReal(SRSub(SRInt(1), SRMul(SRInt(4), SRMul(dn, dn)))))

\* SetDomainN(n) up to the eigenvalues
IGM_SetDomainN_params(o, n) ==
    LET difftau == SRSub(opt_depth_at(n, o.E0), opt_depth_at(n - 1, o.E0))
        scale   == SRAdd(SRInt(1), SRMul(SRInt(n - 1), o.dz))
        Ln      == SRDiv(SRMul(SR(4290, 1, 0), o.dz),
                         SRAdd(SRInt(1), SRMul(SR(145, 100, 0), SRMul(SRInt(n - 1), o.dz))))
        mfn     == IGM_mfn(Ln, difftau)
        dn      == SRMul(SRMul(SRMul(SR(11, 100, 0), o.xi), mfn), SRMul(scale, scale))
        Dn      == IGM_Dn(dn)
        q       == SCReal(SRDiv(SR(-1, 4, 0), mfn))
    IN  IF mfn = ZeroDivisionError THEN [o EXCEPT !.Ln = Ln, !.last_Psin = o.Psin, !.raised = TRUE]
        ELSE [o EXCEPT !.Ln = Ln, !.mfn_print = mfn, !.dtau = difftau, !.dn = dn, !.Dn = Dn,
                       !.EW1n = SCReal(SRDiv(SR(-1, 2, 0), mfn)),
                       !.EW2n = SCMul(q, SCAdd(SCOne, Dn)),
                       !.EW3n = SCMul(q, SCAdd(SCOne, SC(SRNeg(Dn.re), SRNeg(Dn.im)))),
                       !.last_n = n, !.last_Psin = o.Psin, !.raised = FALSE]

\* PhotALPs.SetDomainN(n): the object after the call; ret is the returned Un.
\* An error raised by the division for the mean free path ends the call
\* there, after Ln has been stored.
IGM_SetDomainN(o, n) ==
    Let({IGM_SetDomainN_params(o, n)}, LAMBDA p :
        IF p.raised THEN [o EXCEPT !.Ln = p.Ln, !.last_n = n, !.last_Psin = o.Psin,
                                   !.raised = TRUE, !.ret = << >>]
        ELSE Let({IGM_SetT1n(p)}, LAMBDA t1 :
             Let({IGM_SetT2n(t1)}, LAMBDA t2 :
             Let({IGM_SetT3n(t2)}, LAMBDA t3 :
             Let({IGM_SetUn(t3)}, LAMBDA u : [u EXCEPT !.ret = u.Un])))))

(***************************************************************************)
(* The PhotALPs object and its caller, who sets E0 and Psin on the object  *)
(* before asking for a domain.                                             *)
(***************************************************************************)
IGM_Ld        == SR(50000, 117, 0)       \* Ldom1 for which dz = 1/10
IGM_Xis       == {SRInt(0), SRInt(1), SR(1, 1, -40)}
IGM_Energies  == {1, 2, 3, 4, 5}
IGM_Redshifts == {SRInt(-1), SRInt(0), SR(1, 10, 0), SR(1, 5, 0)}
IGM_Angles    == {[cos |-> SR(3, 5, 0), sin |-> SR(4, 5, 0)], [cos |-> SRInt(0), sin |-> SRInt(-1)]}
IGM_Domains   == {1, 2, 3}

IGM_caller_sets(E0, Psin) ==
    /\ igm' = [igm EXCEPT !.E0 = E0, !.Psin = Psin]
    /\ UNCHANGED <<eng, frame, calls>>

readz(z) ==
    /\ igm' = IGM_readz(igm, z)
    /\ UNCHANGED <<eng, frame, calls>>

PhotALPs_SetDomainN(n) ==
    /\ igm.E0 # 0
    /\ igm' = IGM_SetDomainN(igm, n)
    /\ UNCHANGED <<eng, frame, calls>>

InitIGM ==
    /\ \E xi \in IGM_Xis : igm = IGM_init(IGM_Ld, xi)
    /\ eng = GMF_init(1, 1, 0, QInt(2))
    /\ frame = [c \in Callers |-> IdleFrame]
    /\ calls = 0

NextIGM ==
    \/ \E E0 \in IGM_Energies, Psin \in IGM_Angles : IGM_caller_sets(E0, Psin)
    \/ \E z \in IGM_Redshifts : readz(z)
    \/ \E n \in IGM_Domains : PhotALPs_SetDomainN(n)

SpecIGM == InitIGM /\ [][NextIGM]_vars

(***************************************************************************)
(* The SetDomainN callers of both engines: a behaviour exercises either    *)
(* Pag_TM on the PhotALPs_GMF object (the PhotALPs object is then unused)  *)
(* or the PhotALPs object.  Pag is left out: it never calls SetDomainN and *)
(* writes none of Psin, T1, T2, T3, Un.                                    *)
(***************************************************************************)
InitAll == Init \/ InitIGM

GMF_used == igm = IGM_idle
IGM_used == igm # IGM_idle

NextAll ==
    \/ \E E \in Energies, ra \in RAs, dec \in Decs, pol \in Pols :
          GMF_used /\ Pag_TM_begin(1, E, ra, dec, pol, FALSE, MZeros)
    \/ GMF_used /\ Pag_TM_domain(1)
    \/ GMF_used /\ Pag_TM_return(1)
    \/ \E E0 \in IGM_Energies, Psin \in IGM_Angles : IGM_used /\ IGM_caller_sets(E0, Psin)
    \/ \E z \in IGM_Redshifts : IGM_used /\ readz(z)
    \/ \E n \in IGM_Domains : IGM_used /\ PhotALPs_SetDomainN(n)

SpecAll == InitAll /\ [][NextAll]_vars

(***************************************************************************)
(* Claims about Pag_TM                                                     *)
(***************************************************************************)
\* C1: in Pag_TM each domain matrix is left-multiplied into the cumulative
\* matrix, so after the domains 1..N (farthest first) the cumulative matrix
\* is U_N . ... . U_2 . U_1.
C1_LeftMultiplied ==
    \A c \in TMCalls : frame[c].U = LeftProduct(frame[c].hist)

\* what the code computes instead: U_1 . U_2 . ... . U_N
Pag_TM_RightMultiplied ==
    \A c \in TMCalls : frame[c].U = RightProduct(frame[c].hist)

SumOfChannels(f) == QAdd(QAdd(f.ret[1], f.ret[2]), f.ret[3])

ZeroCoupling(f) == \A k \in 1..Len(f.dags) : QIsZero(f.dags[k])

NoMixingEntries(U) ==
    QIsZero(U[0][2]) /\ QIsZero(U[1][2]) /\ QIsZero(U[2][0]) /\ QIsZero(U[2][1])

\* the upper-left 2x2 block V of a matrix without mixing entries has V . V^dagger = 1
PhotonBlockUnitary(U) ==
    LET W == MDot(U, MDagger(U))
    IN  W[0][0] = QOne /\ W[1][1] = QOne /\ QIsZero(W[0][1]) /\ QIsZero(W[1][0])

PhotonBlockIdentity(U) ==
    U[0][0] = QOne /\ U[1][1] = QOne /\ QIsZero(U[0][1]) /\ QIsZero(U[1][0])

NoAlpComponent(pol) ==
    \A i \in Ix : QIsZero(pol[i][2]) /\ QIsZero(pol[2][i])

ZeroCouplingOutcome(f) ==
    /\ NoMixingEntries(f.U)
    /\ NoAlpComponent(f.pol) =>
          /\ QIsZero(f.ret[3])
          /\ QAdd(f.ret[1], f.ret[2]) = MTrace(f.pol)

C4_NoStateOutlivesCall ==
    \A c \in Callers : frame[c].returned => frame[c].ret = AloneReturn(frame[c])

\* C5: two Pag_TM calls interleaved between their loop passes on one engine
\* each return what they return when run alone.
C5_InterleavedAsAlone ==
    \A c \in TMCalls :
        frame[c].returned =>
            frame[c].ret = Pag_TM_alone(FreshEngine, frame[c].E, frame[c].ra, frame[c].dec,
                                        frame[c].pol, frame[c].has_final, frame[c].pol_final)

\* C7: the number of domains is ceil(path length / domain length) and >= 1.
C7_DomainCountIsCeil ==
    \A c \in Callers :
        frame[c].op # "none" =>
            /\ Len(frame[c].sa) = Ceil(QDivR(eng.smax, eng.Lcoh))
            /\ Len(frame[c].sa) >= 1

(***************************************************************************)
(* Claims about integrate_los and Pag                                      *)
(***************************************************************************)
\* the validity tests of all samples of a call, recomputed
LargeT(f) == [k \in 1..Len(f.sa) |-> LosSample(eng, f.sa[k]).large_t]
LargeU(f) == [k \in 1..Len(f.sa) |-> LosSample(eng, f.sa[k]).large_u]

\* number of maximal runs of consecutive TRUE entries
Runs(flags) ==
    Cardinality({k \in 1..Len(flags) : flags[k] /\ (k = 1 \/ ~flags[k - 1])})

\* C8: the validity warning is emitted once per maximal run of consecutive
\* samples above the bound, not once per sample.
C8_OneWarningPerRegion ==
    \A c \in PagDone :
        /\ Len(frame[c].warn_t) = Runs(LargeT(frame[c]))
        /\ Len(frame[c].warn_u) = Runs(LargeU(frame[c]))

\* what the code does: one warning per sample above the bound
Pag_OneWarningPerSample ==
    \A c \in PagDone :
        /\ Len(frame[c].warn_t) = Cardinality({k \in 1..Len(frame[c].sa) : LargeT(frame[c])[k]})
        /\ Len(frame[c].warn_u) = Cardinality({k \in 1..Len(frame[c].sa) : LargeU(frame[c])[k]})

\* the kernels of all samples, computed without any validity test
KernelT(f) == [k \in 1..Len(f.sa) |-> LosSample(eng, f.sa[k]).kernel_t]
KernelU(f) == [k \in 1..Len(f.sa) |-> LosSample(eng, f.sa[k]).kernel_u]

\* C9: a violation of the validity bound is not fatal: a warning is emitted,
\* all samples are still evaluated, no exception is raised, and Pag returns
\* pol_t^2*I_t + pol_u^2*I_u, unclamped, as if the test were absent.
C9_ViolationNotFatal ==
    \A c \in PagDone :
        LET f == frame[c]
        IN  /\ ~f.raised
            /\ f.kernel_t = KernelT(f)
            /\ f.kernel_u = KernelU(f)
            /\ f.ret = <<PagValue(eng, LosResult(KernelT(f), KernelU(f), f.sa))>>
            /\ \A k \in 1..Len(f.sa) :
                  /\ LargeT(f)[k] => \E w \in 1..Len(f.warn_t) : f.warn_t[w] = k - 1
                  /\ LargeU(f)[k] => \E w \in 1..Len(f.warn_u) : f.warn_u[w] = k - 1

\* a call warned at its first sample, went on over three samples and
\* returned a value above 1
C9_Witness ==
    \E c \in PagDone :
        /\ Len(frame[c].warn_t) > 0
        /\ frame[c].warn_t[1] = 0
        /\ Len(frame[c].kernel_t) = 3
        /\ QGt(frame[c].ret[1], QOne)

(***************************************************************************)
(* Claims about PhotALPs (checked under SpecIGM).                          *)
(***************************************************************************)

\* C6: invalid input fails fast before anything is computed or stored: the
\* object never holds a negative redshift, nor a negative domain count.
C6_InvalidInputFailsFast == igm.z.n >= 0 /\ igm.Nd >= 0

\* the last SetDomainN call met an optical-depth difference of exactly zero
ZeroAbsorption ==
    /\ igm.last_n # 0
    /\ SRIsZero(SRSub(opt_depth_at(igm.last_n, igm.E0), opt_depth_at(igm.last_n - 1, igm.E0)))

\* the last SetDomainN call built Un from the object's matrices and returned it
UnBuiltAndReturned ==
    /\ ~igm.raised
    /\ Len(igm.Un) = 3
    /\ igm.ret = igm.Un
    /\ <<igm.Un[1].T, igm.Un[2].T, igm.Un[3].T>> = <<igm.T1, igm.T2, igm.T3>>

\* C10: after SetDomainN, if the optical-depth difference of the domain is
\* exactly zero then the mean free path is Ln/1e-20 (that is, mfn * 1e-20 = Ln),
\* otherwise it is Ln/difftau (mfn * difftau = Ln); in both cases no error
\* is raised and Un is built and returned.
C10_ZeroAbsorptionFallback ==
    igm.last_n # 0 =>
        /\ UnBuiltAndReturned
        /\ igm.mfn_print # ZeroDivisionError
        /\ IF SRIsZero(igm.dtau)
           THEN SRMul(igm.mfn_print, Tiny) = igm.Ln
           ELSE SRMul(igm.mfn_print, igm.dtau) = igm.Ln

\* a SetDomainN call at zero absorption and non-zero coupling has returned Un
C10_Witness ==
    /\ ZeroAbsorption
    /\ SRIsZero(igm.dtau)
    /\ ~SRIsZero(igm.xi)
    /\ Len(igm.ret) = 3

\* the coupling term d of the last SetDomainN call has 4*d^2 > 1
BeyondHalf(dn) == dn.e >= 10 \/ (dn.e = 0 /\ 4 * dn.n * dn.n > dn.d * dn.d)

\* d is of moderate size, so that 1 - 4*d^2 keeps both of its terms
Moderate(dn) == dn.e = 0

SCNeg(z) == SC(SRNeg(z.re), SRNeg(z.im))

\* C11: SetDomainN computes D = sqrt(1 - 4 d^2) in complex arithmetic on the
\* principal branch (D = 1 at d = 0): it never raises, for 4 d^2 > 1 the
\* discriminant is purely imaginary (and not zero), and the eigenvalues
\* EW2n = -(1+D)/(4 mfn), EW3n = -(1-D)/(4 mfn) and the matrices T2, T3
\* (whose entries are (D+-1)/(2D) and -+i d/D times the angle's factors held
\* in T1) are built from that D.
C11_ComplexDiscriminant ==
    (igm.last_n # 0 /\ ~igm.raised) =>
        LET D    == igm.Dn
            d    == SCReal(igm.dn)
            m4   == SCReal(SRMul(SRInt(-4), igm.mfn_print))
            twoD == SCMul(SCReal(SRInt(2)), D)
            cc   == igm.T1[0][0]
            ss   == igm.T1[1][1]
        IN  /\ D # NotFinite
            /\ D.re.n >= 0 /\ (D.re.n = 0 => D.im.n >= 0)
            /\ SRIsZero(igm.dn) => D = SCOne
            /\ Moderate(igm.dn) =>
                  SCMul(D, D) = SCAdd(SCOne, SCNeg(SCMul(SCReal(SRInt(4)), SCMul(d, d))))
            /\ BeyondHalf(igm.dn) => (D.re.n = 0 /\ D.im.n > 0)
            /\ SCMul(igm.EW2n, m4) = SCAdd(SCOne, D)
            /\ SCMul(igm.EW3n, m4) = SCAdd(SCOne, SCNeg(D))
            /\ D # SCZero =>
                  /\ SCMul(igm.T2[2][2], twoD) = SCAdd(D, SCNeg(SCOne))
                  /\ SCMul(igm.T3[2][2], twoD) = SCAdd(D, SCOne)
                  /\ SCMul(igm.T2[0][0], twoD) = SCMul(SCAdd(D, SCOne), ss)
                  /\ SCMul(igm.T3[1][1], twoD) = SCMul(SCAdd(D, SCNeg(SCOne)), cc)
                  /\ Moderate(igm.dn) =>
                        /\ SCMul(SCMul(igm.T2[0][2], D), SCMul(igm.T2[0][2], D))
                              = SCNeg(SCMul(SCMul(d, d), ss))
                        /\ SCMul(SCMul(igm.T3[1][2], D), SCMul(igm.T3[1][2], D))
                              = SCNeg(SCMul(SCMul(d, d), cc))

\* a SetDomainN call with a moderate d > 1/2 has returned: D is purely
\* imaginary and the ALP entry of T2 is complex
C11_Witness ==
    /\ igm.last_n # 0
    /\ ~igm.raised
    /\ Moderate(igm.dn) /\ BeyondHalf(igm.dn)
    /\ igm.Dn.re.n = 0 /\ igm.Dn.im.n > 0
    /\ igm.T2[2][2].im.n # 0
    /\ Len(igm.ret) = 3

(***************************************************************************)
(* Claims about the basis matrices of both engines (checked under SpecAll) *)
(***************************************************************************)
SMIdentity == Mat(LAMBDA i, j : IF i = j THEN SCOne ELSE SCZero)
SMAdd(A, B) == Mat(LAMBDA i, j : SCAdd(A[i][j], B[i][j]))

\* [[c^2, -c*s, 0], [-c*s, s^2, 0], [0, 0, 0]] in the two arithmetics
T1Of(c, s) ==
    Mat(LAMBDA i, j : IF i = 0 /\ j = 0 THEN QMul(c, c)
                      ELSE IF i = 1 /\ j = 1 THEN QMul(s, s)
                      ELSE IF i + j = 1 THEN QNeg(QMul(c, s))
                      ELSE QZero)
ST1Of(c, s) ==
    Mat(LAMBDA i, j : IF i = 0 /\ j = 0 THEN SCMul(c, c)
                      ELSE IF i = 1 /\ j = 1 THEN SCMul(s, s)
                      ELSE IF i + j = 1 THEN SCNeg(SCMul(c, s))
                      ELSE SCZero)

\* SetDomainN of PhotALPs has run on the object and returned
IGM_DomainSet == IGM_used /\ igm.last_n # 0 /\ ~igm.raised

\* the PhotALPs object holds T1 of the angle of its last SetDomainN call
\* and T1 + T2 + T3 = I
IGM_BasisComplete ==
    /\ igm.T1 = ST1Of(SCReal(igm.last_Psin.cos), SCReal(igm.last_Psin.sin))
    /\ SMAdd(SMAdd(igm.T1, igm.T2), igm.T3) = SMIdentity

\* SetDomainN of PhotALPs_ICM has run on the engine; no step but Pag_TM's
\* loop pass, which ends with it, changes Psin, T1, T2, T3 or Un
GMF_DomainSet == GMF_used /\ eng.Un # MZeros

\* the PhotALPs_GMF object holds T1 of its angle and T1 + T2 + T3 = I
GMF_BasisComplete ==
    /\ eng.T1 = T1Of(eng.Psin.cos, eng.Psin.sin)
    /\ MAdd(MAdd(eng.T1, eng.T2), eng.T3) = MIdentity

====
